---- MODULE Spec2Model ----
(***************************************************************************)
(* Model of the redis_lock package: RedisLock instances (lock.go) that     *)
(* contend for one key of one redis node through SET NX EX and the two     *)
(* ownership-checking Lua scripts, with the watchdog renewal goroutine;    *)
(* and RedLocks (redlock.go) over a common set of nodes, one node for      *)
(* each member lock.                                                       *)
(*                                                                         *)
(* Time is discrete, one clock tick = one second (the unit of every TTL,   *)
(* wait budget and watchdog period in the code).  The 50 ms poll ticker of *)
(* blockingLock is faster than the clock: between two clock ticks it fires *)
(* at least once and the model lets it fire any number of times.           *)
(***************************************************************************)
EXTENDS Integers, Sequences, FiniteSets, TLC

(* ---------------- bounds of the model ---------------- *)
\* number of RedisLock instances contending for the key
NInst == 2
\* the per-call count of acquire attempts saturates here
MaxAttempts == 2
\* the callers make at most this many Lock and Unlock calls in all
MaxCalls == 3
\* at most this many commands fail at the connection or at the node
MaxFaults == 1
\* the explicit TTLs and the wait budgets of the abandoned-lock scenario, in seconds
MaxTTL == 2
MaxWait == 3
\* NewRedLock is called with 0..MaxConfs node configurations
MaxConfs == 3
\* number of RedLock instances over the same nodes
NRed == 2

Inst == 1..NInst

(* ---------------- program constants ---------------- *)
DefaultLockExpireSeconds == 10
WatchDogWorkStepSeconds == 3
\* runWatchDog renews for WatchDogWorkStepSeconds + 3 seconds
WatchDogExpireMargin == 3
\* repairLock's default for blockWaitingSeconds
DefaultBlockWaitingSeconds == 5
RedisLockKeyPrefix == "REDIS_LOCK_PREFIX_"

\* inputs of the constructor: the options callers pass, as the WithXxx closures
\* leave LockOptions (0 = option not given): none; WithExpireSeconds(1);
\* WithBlock, WithBlockWaitingSeconds(2); all three
OptionLists ==
  {[isBlock |-> b, blockWaitingSeconds |-> IF b THEN 2 ELSE 0, expireSeconds |-> e] :
     b \in BOOLEAN, e \in {0, 1}}
\* the key every instance is built for
LockKeyName == "test_key"
\* the goroutine that calls NewRedisLock for instance i: the main goroutine (1)
\* of process 1, or a goroutine of that process started for the instance
Pids == {1}
Gids(i) == {1, i}

(* ---------------- errors ---------------- *)
\* an error value: what it is, and the sentinel it wraps (errors.Is follows wraps)
NilErr == [kind |-> "nil", wraps |-> "none"]
RedisErrNil == [kind |-> "redis.ErrNil", wraps |-> "redis.ErrNil"]
StoreErr == [kind |-> "store", wraps |-> "none"]
ErrLockAcquiredByOthers == "ErrLockAcquiredByOthers"
ContentionErr == [kind |-> "contention", wraps |-> ErrLockAcquiredByOthers]
WaitTimeoutErr == [kind |-> "wait-timeout", wraps |-> ErrLockAcquiredByOthers]
CtxErr == [kind |-> "ctx", wraps |-> "ctx.Err"]
UnlockOwnershipErr == [kind |-> "unlock-ownership", wraps |-> "none"]
ExpireOwnershipErr == [kind |-> "expire-ownership", wraps |-> "none"]
\* not an error value: the deferred r.stopDog() of Unlock called a nil func
NilFuncPanic == [kind |-> "panic", wraps |-> "none"]

IsRetryableErr(err) == err.wraps = ErrLockAcquiredByOthers

(* ---------------- construction ---------------- *)
\* utils.GetProcessAndGoroutineIDStr: "<pid>_<goroutine id>"
GetProcessAndGoroutineIDStr(pid, gid) == ToString(pid) \o "_" \o ToString(gid)

\* repairLock without the default of the wait budget
repairLockNoBudgetDefault(lo) ==
  IF lo.expireSeconds > 0
  THEN lo
  ELSE [lo EXCEPT !.expireSeconds = DefaultLockExpireSeconds, !.watchDogMode = TRUE]

\* option.go repairLock, applied to the options as the WithXxx closures left them
repairLock(lo) ==
  LET w == IF lo.isBlock /\ lo.blockWaitingSeconds <= 0
           THEN DefaultBlockWaitingSeconds ELSE lo.blockWaitingSeconds
  IN IF lo.expireSeconds > 0
     THEN [isBlock |-> lo.isBlock, blockWaitingSeconds |-> w,
           expireSeconds |-> lo.expireSeconds, watchDogMode |-> lo.watchDogMode]
     ELSE [isBlock |-> lo.isBlock, blockWaitingSeconds |-> w,
           expireSeconds |-> DefaultLockExpireSeconds, watchDogMode |-> TRUE]

\* lock.go NewRedisLock called by goroutine gid of process pid
NewRedisLock(key, pid, gid, o) ==
  [key |-> key,
   token |-> GetProcessAndGoroutineIDStr(pid, gid),
   opts |-> repairLock([isBlock |-> o.isBlock,
                        blockWaitingSeconds |-> o.blockWaitingSeconds,
                        expireSeconds |-> o.expireSeconds, watchDogMode |-> FALSE])]

getLockKey(r) == RedisLockKeyPrefix \o r.key

(* ---------------- the store ---------------- *)
\* a key that is not set.  by: the instance whose SET wrote the record (history
\* of the model, the store does not keep it)
NoRecord == [val |-> "", ttl |-> 0, by |-> 0]

\* a SET that also succeeds on a record that already carries the caller's value
SetNXReentrant(rec, value, expireSeconds, who, fail) ==
  IF fail THEN [reply |-> -1, err |-> StoreErr, rec |-> rec]
  ELSE IF rec = NoRecord \/ rec.val = value
       THEN [reply |-> 1, err |-> NilErr,
             rec |-> [val |-> value, ttl |-> expireSeconds, by |-> who]]
       ELSE [reply |-> 0, err |-> RedisErrNil, rec |-> rec]

\* redis.go Client.SetNX: SET key value EX expireSeconds NX.
\* fail: the connection or the command fails.  Result: reply, err, the record after
SetNX(rec, value, expireSeconds, who, fail) ==
  IF fail THEN [reply |-> -1, err |-> StoreErr, rec |-> rec]
  ELSE IF rec = NoRecord
       THEN [reply |-> 1, err |-> NilErr,
             rec |-> [val |-> value, ttl |-> expireSeconds, by |-> who]]
       ELSE [reply |-> 0, err |-> RedisErrNil, rec |-> rec]

\* the Lua script: get; if missing or another token return 0, else del
LuaCheckAndDeleteDistributionLock(rec, targetToken) ==
  IF rec = NoRecord \/ rec.val # targetToken
  THEN [reply |-> 0, rec |-> rec]
  ELSE [reply |-> 1, rec |-> NoRecord]

\* the Lua script: get; if missing or another token return 0, else expire
LuaCheckAndExpireDistributionLock(rec, targetToken, duration) ==
  IF rec = NoRecord \/ rec.val # targetToken
  THEN [reply |-> 0, rec |-> rec]
  ELSE [reply |-> 1, rec |-> [rec EXCEPT !.ttl = duration]]

(* ---------------- state ---------------- *)
VARIABLES
  locks,   \* locks[i]: the RedisLock struct of instance i (key, token, opts, runningDog, stopDog)
  store,   \* store[k]: the record of key k on the redis node
  call,    \* call[i]: the goroutine that calls Lock/Unlock on instance i
  ret,     \* ret[i]: the latest call on instance i and the error it returned
  dog,     \* dog[i]: the watchdog goroutine of instance i: its context and its ticker
  lease,   \* lease[i]: seconds left of the lease the store last granted to instance i
  ncalls,  \* the number of Lock and Unlock calls made so far
  nfaults, \* the number of commands that failed so far
  released \* released[i]: history, see Released

\* the RedLocks (redlock.go) and the nodes their members use
VARIABLES
  redLock,  \* redLock[r]: what NewRedLock returned: the error, or the options and the member locks
  nodes,    \* nodes[n]: the record of the key on the node of member n of every RedLock
  redCall,  \* redCall[r]: the goroutine that calls Lock / Unlock on RedLock r
  redRet,   \* redRet[r]: the latest call on RedLock r and what it returned
  redDog,   \* redDog[r][n]: the context of the watchdog goroutine of member n of RedLock r
  redLease  \* redLease[r][n]: seconds left of the lease node n last granted to RedLock r

redVars == <<redLock, nodes, redCall, redRet, redDog, redLease>>
lockVars == <<locks, store, call, ret, dog, lease, released>>
vars == <<locks, store, call, ret, dog, lease, ncalls, nfaults, released,
          redLock, nodes, redCall, redRet, redDog, redLease>>

\* whether the next command may fail
Faults == IF nfaults < MaxFaults THEN BOOLEAN ELSE {FALSE}
Count(fail) == nfaults' = nfaults + (IF fail THEN 1 ELSE 0)

Min(a, b) == IF a < b THEN a ELSE b
Max(a, b) == IF a > b THEN a ELSE b

NoCall == [op |-> "none", err |-> NilErr]
Pending == [kind |-> "pending", wraps |-> "none"]
IdleCall == [pc |-> "idle", ctx |-> "live", attempts |-> 0, waitLeft |-> 0,
             polled |-> FALSE, late |-> FALSE]
NoDog == [ctx |-> "none", timer |-> 0]

\* instance i's latest Lock returned success and it has not called Unlock since
Held(i) == ret[i] = [op |-> "Lock", err |-> NilErr]
\* ... and its lease has not run out
Holds(i) == Held(i) /\ lease[i] > 0

\* the keys of the node that the instances use
StoreKeys == {RedisLockKeyPrefix \o LockKeyName}
\* the record instance i's commands address
Rec(i) == store[getLockKey(locks[i])]
PutRec(i, rec) == [store EXCEPT ![getLockKey(locks[i])] = rec]

(* ---------------- redlock.go: construction ---------------- *)
\* durations are in milliseconds
DefaultSingleLockTimeout == 50
\* the node configurations NewRedLock can be given
Confs == 1..MaxConfs
\* the RedLocks that callers build over these nodes
Reds == 1..NRed
\* inputs of NewRedLock: the options as the WithXxx closures leave RedLockOptions
\* (0 = option not given)
RedLockOptionLists ==
  {[singleNodesTimeout |-> t, expireDuration |-> e] :
     t \in {0 - 50, 0, 10, 50, 100}, e \in {0 - 1000, 0, 500, 1000, 1500, 3000}}

TooFewNodesErr == [kind |-> "too-few-nodes", wraps |-> "none"]
ThresholdErr == [kind |-> "thresholds-too-long", wraps |-> "none"]
QuorumErr == [kind |-> "quorum", wraps |-> "none"]

\* the options left as the closures set them
repairRedLockNoDefault(o) == o

\* option.go repairRedLock
repairRedLock(o) ==
  [o EXCEPT !.singleNodesTimeout = IF @ <= 0 THEN DefaultSingleLockTimeout ELSE @]

\* int64(d.Seconds()): the whole seconds of a duration, truncated towards zero
Seconds(d) == IF d >= 0 THEN d \div 1000 ELSE 0 - ((0 - d) \div 1000)

\* the check of len(confs) that accepts two nodes
TooFewNodesBelow2(n) == n < 2

\* NewRedLock: len(confs) < 3
TooFewNodes(n) == n < 3

\* NewRedLock: the threshold check, made only for a positive expireDuration
ThresholdTooLong(n, o) ==
  o.expireDuration > 0 /\ n * o.singleNodesTimeout * 10 > o.expireDuration

\* a nil *RedLock together with the error
NoRedLock(err) ==
  [err |-> err, singleNodesTimeout |-> 0, expireDuration |-> 0, locks |-> <<>>]
\* before NewRedLock is called
NotBuilt == NoRedLock([kind |-> "not-built", wraps |-> "none"])

\* redlock.go NewRedLock(key, confs, opts...) with n = len(confs), called by
\* goroutine gid of process pid: one member lock per node configuration
NewRedLock(key, pid, gid, n, opts) ==
  LET o == repairRedLock(opts)
  IN IF TooFewNodes(n) THEN NoRedLock(TooFewNodesErr)
     ELSE IF ThresholdTooLong(n, o) THEN NoRedLock(ThresholdErr)
     ELSE [err |-> NilErr,
           singleNodesTimeout |-> o.singleNodesTimeout,
           expireDuration |-> o.expireDuration,
           locks |-> [k \in 1..n |->
                       [runningDog |-> 0, stopDog |-> "nil"] @@
                       NewRedisLock(key, pid, gid,
                         [isBlock |-> FALSE, blockWaitingSeconds |-> 0,
                          expireSeconds |-> Seconds(o.expireDuration)])]]

\* the goroutine of the RedLock's caller between calls.  k: the member the loop
\* is at; successCnt; err: the error RedLock.Unlock keeps; res: history, what
\* the Lock of each member came to in the latest RedLock.Lock
IdleRedCall ==
  [pc |-> "idle", k |-> 0, successCnt |-> 0, err |-> NilErr,
   res |-> [n \in Confs |-> "none"]]

\* no RedLock has been built and no node holds a record
RedNotBuilt ==
  /\ redLock = [r \in Reds |-> NotBuilt]
  /\ nodes = [n \in Confs |-> NoRecord]
  /\ redCall = [r \in Reds |-> IdleRedCall]
  /\ redRet = [r \in Reds |-> NoCall]
  /\ redDog = [r \in Reds |-> [n \in Confs |-> "none"]]
  /\ redLease = [r \in Reds |-> [n \in Confs |-> 0]]

\* the state after construction, the instances built with option lists from O
Constructed(O) ==
  /\ \E pid \in [Inst -> Pids], gid \in [Inst -> Inst], o \in O :
       /\ \A i \in Inst : gid[i] \in Gids(i)
       /\ locks = [i \in Inst |->
                  [runningDog |-> 0, stopDog |-> "nil"] @@
                  NewRedisLock(LockKeyName, pid[i], gid[i], o[i])]
  /\ store = [k \in StoreKeys |-> NoRecord]
  /\ call = [i \in Inst |-> IdleCall]
  /\ ret = [i \in Inst |-> NoCall]
  /\ dog = [i \in Inst |-> NoDog]
  /\ lease = [i \in Inst |-> 0]
  /\ ncalls = 0
  /\ nfaults = 0
  /\ released = [i \in Inst |-> FALSE]

Init == Constructed([Inst -> OptionLists]) /\ RedNotBuilt

\* History of a blocking Lock of instance i.  released[i] holds when, while i was
\* polling with its context live and its wait budget not yet elapsed, the Unlock
\* of another instance removed the record, and no instance has acquired the key
\* since.  who: the instance that steps; got: it acquired the key; freed: its
\* Unlock removed the record; starts: it enters Lock
Released(who, got, freed, starts) ==
  released' = [i \in Inst |->
    IF i = who THEN (IF starts THEN FALSE ELSE released[i])
    ELSE IF got THEN FALSE
    ELSE IF freed /\ call[i].pc = "polling" /\ call[i].ctx = "live"
                  /\ call[i].waitLeft > 0 THEN TRUE
    ELSE released[i]]

(* ---------------- lock.go ---------------- *)
\* tryLock returning the error of SetNX as it is, redis.ErrNil not translated
tryLockRawErrNil(r, rec, who, fail) ==
  LET s == SetNX(rec, r.token, r.opts.expireSeconds, who, fail)
  IN [err |-> s.err, rec |-> s.rec]

\* tryLock turning every error of SetNX into the contention error
tryLockAllRetryable(r, rec, who, fail) ==
  LET s == SetNX(rec, r.token, r.opts.expireSeconds, who, fail)
  IN [err |-> IF s.err # NilErr THEN ContentionErr ELSE s.err, rec |-> s.rec]

\* RedisLock.tryLock: one SetNX; redis.ErrNil becomes the retryable contention error
tryLock(r, rec, who, fail) ==
  LET s == SetNX(rec, r.token, r.opts.expireSeconds, who, fail)
  IN [err |-> IF s.err = RedisErrNil THEN ContentionErr ELSE s.err, rec |-> s.rec]

\* RedisLock.watchDog after the compare-and-swap of runningDog succeeded:
\* the goroutine gets a child of the context of the Lock call
startDog(i, c) ==
  /\ locks' = [locks EXCEPT ![i].runningDog = 1, ![i].stopDog = "set"]
  /\ dog' = [dog EXCEPT ![i] = [ctx |-> c, timer |-> 0]]

\* the calling goroutine after its call returned: what the call did stays on record
returned(c) == [IdleCall EXCEPT !.attempts = c.attempts, !.late = c.late]

\* the end of a Lock call whose deferred function calls watchDog whatever err is
lockReturnDogAlways(i, err, c) ==
  IF locks[i].opts.watchDogMode /\ locks[i].runningDog = 0
  THEN /\ startDog(i, c.ctx)
       /\ call' = [call EXCEPT ![i] = returned(c)]
       /\ ret' = [ret EXCEPT ![i] = [op |-> "Lock", err |-> err]]
  ELSE /\ call' = [call EXCEPT ![i] = returned(c)]
       /\ ret' = [ret EXCEPT ![i] = [op |-> "Lock", err |-> err]]
       /\ UNCHANGED <<locks, dog>>

\* the end of a Lock call: the deferred function (watchDog when err is nil), then
\* the return of err.  c is the call as the body of Lock left it
lockReturn(i, err, c) ==
  IF err = NilErr /\ locks[i].opts.watchDogMode
  THEN IF locks[i].runningDog = 0
       THEN /\ startDog(i, c.ctx)
            /\ call' = [call EXCEPT ![i] = returned(c)]
            /\ ret' = [ret EXCEPT ![i] = [op |-> "Lock", err |-> NilErr]]
       ELSE \* the compare-and-swap loop spins while the earlier goroutine runs
            /\ call' = [call EXCEPT ![i] = [c EXCEPT !.pc = "spin"]]
            /\ ret' = [ret EXCEPT ![i] = [op |-> "Lock", err |-> Pending]]
            /\ UNCHANGED <<locks, dog>>
  ELSE /\ call' = [call EXCEPT ![i] = returned(c)]
       /\ ret' = [ret EXCEPT ![i] = [op |-> "Lock", err |-> err]]
       /\ UNCHANGED <<locks, dog>>

\* RedisLock.Lock up to its return or to the first tick of blockingLock
Lock(i) ==
  /\ call[i].pc = "idle"
  /\ ncalls < MaxCalls /\ ncalls' = ncalls + 1
  /\ UNCHANGED redVars
  /\ \E fail \in Faults :
       LET t == tryLock(locks[i], Rec(i), i, fail)
           c == [IdleCall EXCEPT !.attempts = 1]
       IN /\ Count(fail)
          /\ Released(i, t.err = NilErr, FALSE, TRUE)
          /\ store' = PutRec(i, t.rec)
          /\ lease' = [lease EXCEPT ![i] =
                         IF t.err = NilErr THEN locks[i].opts.expireSeconds ELSE 0]
          /\ IF t.err = NilErr \/ ~locks[i].opts.isBlock \/ ~IsRetryableErr(t.err)
             THEN lockReturn(i, t.err, c)
             ELSE /\ call' = [call EXCEPT ![i] =
                       [c EXCEPT !.pc = "polling",
                                 !.waitLeft = locks[i].opts.blockWaitingSeconds]]
                  /\ ret' = [ret EXCEPT ![i] = [op |-> "Lock", err |-> Pending]]
                  /\ UNCHANGED <<locks, dog>>

\* the loop body with tryLock moved before the select: an attempt on every tick,
\* the channels looked at only after a contended attempt
blockingLockTickTryFirst(r, c, rec, who, fail, pick) ==
  LET ctxDone == c.ctx = "done"
      timedOut == c.waitLeft = 0
      t == tryLock(r, rec, who, fail)
  IN IF t.err = NilErr \/ ~IsRetryableErr(t.err)
     THEN [done |-> TRUE, err |-> t.err, rec |-> t.rec, tried |-> TRUE]
     ELSE IF ctxDone /\ (~timedOut \/ pick = "ctx")
     THEN [done |-> TRUE, err |-> CtxErr, rec |-> t.rec, tried |-> TRUE]
     ELSE [done |-> timedOut, err |-> IF timedOut THEN WaitTimeoutErr ELSE t.err,
           rec |-> t.rec, tried |-> TRUE]

\* the loop body taking the budget for elapsed one second early
blockingLockTickEarlyTimeout(r, c, rec, who, fail, pick) ==
  LET ctxDone == c.ctx = "done"
      timedOut == c.waitLeft <= 1
      t == tryLock(r, rec, who, fail)
  IN IF ctxDone /\ (~timedOut \/ pick = "ctx")
     THEN [done |-> TRUE, err |-> CtxErr, rec |-> rec, tried |-> FALSE]
     ELSE IF timedOut
     THEN [done |-> TRUE, err |-> WaitTimeoutErr, rec |-> rec, tried |-> FALSE]
     ELSE [done |-> t.err = NilErr \/ ~IsRetryableErr(t.err),
           err |-> t.err, rec |-> t.rec, tried |-> TRUE]

\* the loop body without the ctx.Done() case of the select
blockingLockTickNoCtx(r, c, rec, who, fail, pick) ==
  LET timedOut == c.waitLeft = 0
      t == tryLock(r, rec, who, fail)
  IN IF timedOut
     THEN [done |-> TRUE, err |-> WaitTimeoutErr, rec |-> rec, tried |-> FALSE]
     ELSE [done |-> t.err = NilErr \/ ~IsRetryableErr(t.err),
           err |-> t.err, rec |-> t.rec, tried |-> TRUE]

\* one tick of the poll ticker in RedisLock.blockingLock: the select, then tryLock.
\* pick: the case the select takes when both channels are ready.
\* Result: done (the loop returns), err, the record after, tried (an attempt was made)
blockingLockTick(r, c, rec, who, fail, pick) ==
  LET ctxDone == c.ctx = "done"
      timedOut == c.waitLeft = 0
      t == tryLock(r, rec, who, fail)
  IN IF ctxDone /\ (~timedOut \/ pick = "ctx")
     THEN [done |-> TRUE, err |-> CtxErr, rec |-> rec, tried |-> FALSE]
     ELSE IF timedOut
     THEN [done |-> TRUE, err |-> WaitTimeoutErr, rec |-> rec, tried |-> FALSE]
     ELSE [done |-> t.err = NilErr \/ ~IsRetryableErr(t.err),
           err |-> t.err, rec |-> t.rec, tried |-> TRUE]

blockingLock(i) ==
  /\ call[i].pc = "polling"
  /\ \E fail \in Faults, pick \in {"ctx", "timeout"} :
       LET s == blockingLockTick(locks[i], call[i], Rec(i), i, fail, pick)
           c == [call[i] EXCEPT
                   !.polled = TRUE,
                   !.attempts = IF s.tried THEN Min(@ + 1, MaxAttempts) ELSE @,
                   !.late = @ \/ (s.tried /\ call[i].waitLeft = 0)]
       IN /\ Count(fail /\ s.tried)
          /\ Released(i, s.tried /\ s.err = NilErr, FALSE, FALSE)
          /\ store' = PutRec(i, s.rec)
          /\ lease' = [lease EXCEPT ![i] =
                         IF s.tried /\ s.err = NilErr
                         THEN locks[i].opts.expireSeconds ELSE @]
          /\ IF s.done
             THEN lockReturn(i, s.err, c)
             ELSE /\ call' = [call EXCEPT ![i] = c]
                  /\ UNCHANGED <<locks, ret, dog>>
  /\ UNCHANGED ncalls
  /\ UNCHANGED redVars

\* RedisLock.watchDog: the compare-and-swap loop ends once the earlier watchdog
\* goroutine has reset runningDog; Lock then returns nil
watchDog(i) ==
  /\ call[i].pc = "spin"
  /\ locks[i].runningDog = 0
  /\ startDog(i, call[i].ctx)
  /\ call' = [call EXCEPT ![i] = returned(call[i])]
  /\ ret' = [ret EXCEPT ![i] = [op |-> "Lock", err |-> NilErr]]
  /\ UNCHANGED <<store, lease, nfaults, released>>
  /\ UNCHANGED ncalls
  /\ UNCHANGED redVars

\* RedisLock.DelayExpire: Eval of the expire script with (key, token, expireSeconds)
DelayExpire(r, rec, expireSeconds, fail) ==
  LET e == LuaCheckAndExpireDistributionLock(rec, r.token, expireSeconds)
  IN IF fail THEN [err |-> StoreErr, rec |-> rec]
     ELSE IF e.reply # 1 THEN [err |-> ExpireOwnershipErr, rec |-> e.rec]
     ELSE [err |-> NilErr, rec |-> e.rec]

\* a watchdog goroutine that returns when a renewal fails
runWatchDogEndsOnFailure(i) ==
  /\ locks[i].runningDog = 1
  /\ dog[i].timer = WatchDogWorkStepSeconds
  /\ IF dog[i].ctx = "done"
     THEN /\ locks' = [locks EXCEPT ![i].runningDog = 0]
          /\ dog' = [dog EXCEPT ![i] = NoDog]
          /\ UNCHANGED <<store, lease, nfaults>>
     ELSE \E fail \in Faults :
            LET d == DelayExpire(locks[i], Rec(i),
                                 WatchDogWorkStepSeconds + WatchDogExpireMargin, fail)
            IN /\ Count(fail)
               /\ store' = PutRec(i, d.rec)
               /\ lease' = [lease EXCEPT ![i] =
                              IF d.err = NilErr /\ (Held(i) \/ call[i].pc = "spin")
                              THEN d.rec.ttl ELSE @]
               /\ IF d.err = NilErr
                  THEN dog' = [dog EXCEPT ![i].timer = 0] /\ UNCHANGED locks
                  ELSE /\ locks' = [locks EXCEPT ![i].runningDog = 0]
                       /\ dog' = [dog EXCEPT ![i] = NoDog]
  /\ UNCHANGED <<call, ret, released>>
  /\ UNCHANGED ncalls
  /\ UNCHANGED redVars

\* one tick of the ticker in RedisLock.runWatchDog, WatchDogWorkStepSeconds after
\* the last: return when the context is done, else renew and drop the error
runWatchDog(i) ==
  /\ locks[i].runningDog = 1
  /\ dog[i].timer = WatchDogWorkStepSeconds
  /\ IF dog[i].ctx = "done"
     THEN \* the deferred atomic.StoreInt32(&r.runningDog, 0)
          /\ locks' = [locks EXCEPT ![i].runningDog = 0]
          /\ dog' = [dog EXCEPT ![i] = NoDog]
          /\ UNCHANGED <<store, lease, nfaults>>
     ELSE \E fail \in Faults :
            LET d == DelayExpire(locks[i], Rec(i),
                                 WatchDogWorkStepSeconds + WatchDogExpireMargin, fail)
            IN /\ Count(fail)
               /\ store' = PutRec(i, d.rec)
               /\ lease' = [lease EXCEPT ![i] =
                              IF d.err = NilErr /\ (Held(i) \/ call[i].pc = "spin")
                              THEN d.rec.ttl ELSE @]
               /\ dog' = [dog EXCEPT ![i].timer = 0]
               /\ UNCHANGED locks
  /\ UNCHANGED <<call, ret, released>>
  /\ UNCHANGED ncalls
  /\ UNCHANGED redVars

\* a CancelFunc that signals nothing
cancelNoSignal(c) == c

\* the context c after its CancelFunc was called (r.stopDog(), or the cancel of
\* a per-node context): done; a context that is done already stays so
cancel(c) == IF c = "live" THEN "done" ELSE c

\* the body of RedisLock.Unlock: Eval of the delete script with (key, token)
unlockBody(r, rec, fail) ==
  LET d == LuaCheckAndDeleteDistributionLock(rec, r.token)
  IN IF fail THEN [err |-> StoreErr, rec |-> rec]
     ELSE IF d.reply # 1 THEN [err |-> UnlockOwnershipErr, rec |-> d.rec]
     ELSE [err |-> NilErr, rec |-> d.rec]

\* the deferred function of RedisLock.Unlock: r.stopDog().  A nil stopDog panics
\* and the caller gets no return value; otherwise the watchdog context is cancelled
stopDogOutcome(r, err) == IF r.stopDog = "nil" THEN NilFuncPanic ELSE err

\* RedisLock.Unlock.  recovered: a caller's frame recovers the panic and the
\* goroutine goes on; otherwise the goroutine ends with it
Unlock(i) ==
  /\ call[i].pc = "idle"
  /\ ncalls < MaxCalls /\ ncalls' = ncalls + 1
  /\ UNCHANGED redVars
  /\ \E fail \in Faults, recovered \in BOOLEAN :
       LET u == unlockBody(locks[i], Rec(i), fail)
           out == stopDogOutcome(locks[i], u.err)
       IN /\ Count(fail)
          /\ Released(i, FALSE, u.err = NilErr, FALSE)
          /\ store' = PutRec(i, u.rec)
          /\ ret' = [ret EXCEPT ![i] = [op |-> "Unlock", err |-> out]]
          /\ call' = [call EXCEPT ![i] =
                        [IdleCall EXCEPT !.pc = IF out = NilFuncPanic /\ ~recovered
                                                THEN "crashed" ELSE "idle"]]
          /\ dog' = [dog EXCEPT ![i].ctx = cancel(@)]
          /\ lease' = [lease EXCEPT ![i] = 0]
          /\ UNCHANGED locks

(* ---------------- the environment ---------------- *)
\* the context passed to the Lock call in progress is cancelled or times out
CancelLockCtx(i) ==
  /\ call[i].pc \in {"polling", "spin"}
  /\ call[i].ctx = "live"
  /\ call' = [call EXCEPT ![i].ctx = "done"]
  /\ released' = [released EXCEPT ![i] = FALSE]
  /\ UNCHANGED <<locks, store, ret, dog, lease, nfaults>>
  /\ UNCHANGED ncalls
  /\ UNCHANGED redVars

\* the context that was passed to the Lock call that started the watchdog is
\* cancelled or times out after that call returned: its child is done with it
CancelDogParentCtx(i) ==
  /\ call[i].pc = "idle"
  /\ dog[i].ctx = "live"
  /\ dog' = [dog EXCEPT ![i].ctx = "done"]
  /\ UNCHANGED <<locks, store, call, ret, lease, nfaults, released>>
  /\ UNCHANGED ncalls
  /\ UNCHANGED redVars

\* a node on which no TTL ever runs out
expireNever(rec) == rec

\* the record after one second: redis removes a key whose TTL has run out
expire(rec) == IF rec.ttl <= 1 THEN NoRecord ELSE [rec EXCEPT !.ttl = @ - 1]

\* one second passes.  Tickers that are due fire before time moves on: a watchdog
\* whose period has elapsed, and the poll ticker of every blockingLock
Tick ==
  /\ \A i \in Inst : locks[i].runningDog = 1 => dog[i].timer < WatchDogWorkStepSeconds
  /\ \A i \in Inst : call[i].pc = "polling" => call[i].polled
  /\ store' = [k \in StoreKeys |-> expire(store[k])]
  /\ lease' = [i \in Inst |-> Max(lease[i] - 1, 0)]
  /\ dog' = [i \in Inst |->
               IF locks[i].runningDog = 1 THEN [dog[i] EXCEPT !.timer = @ + 1] ELSE dog[i]]
  /\ call' = [i \in Inst |->
                IF call[i].pc = "polling"
                THEN [call[i] EXCEPT !.waitLeft = Max(@ - 1, 0), !.polled = FALSE]
                ELSE call[i]]
  /\ UNCHANGED <<locks, ret, nfaults, released>>
  /\ UNCHANGED ncalls
  /\ UNCHANGED redVars

Next ==
  \/ \E i \in Inst : Lock(i)
  \/ \E i \in Inst : blockingLock(i)
  \/ \E i \in Inst : watchDog(i)
  \/ \E i \in Inst : runWatchDog(i)
  \/ \E i \in Inst : Unlock(i)
  \/ \E i \in Inst : CancelLockCtx(i)
  \/ \E i \in Inst : CancelDogParentCtx(i)
  \/ Tick

Spec == Init /\ [][Next]_vars

(* ---------------- watchdog mode, the tickers running ---------------- *)
\* no WithExpireSeconds: the instances are in watchdog mode
WatchDogOptionLists == {o \in OptionLists : o.expireSeconds = 0}

\* every instance is built with the same option list, in watchdog mode
InitWatchDog ==
  /\ Constructed({[i \in Inst |-> o] : o \in WatchDogOptionLists})
  /\ RedNotBuilt

\* the clock runs, and the goroutines run: the poll ticker of a blockingLock in
\* progress and the ticker of a watchdog keep firing, and a compare-and-swap loop
\* whose flag is clear ends.  The callers and their contexts do as they like
SpecWatchDog ==
  /\ InitWatchDog /\ [][Next]_vars
  /\ WF_vars(Tick)
  /\ \A i \in Inst : WF_vars(blockingLock(i))
  /\ \A i \in Inst : WF_vars(runWatchDog(i))
  /\ \A i \in Inst : WF_vars(watchDog(i))

(* ---------------- the abandoned lock (Test_blockingLock) ---------------- *)
\* WithExpireSeconds(e), WithBlock(), WithBlockWaitingSeconds(w), the wait budget
\* longer than the TTL
AbandonOptionLists ==
  {o \in {[isBlock |-> TRUE, blockWaitingSeconds |-> w, expireSeconds |-> e] :
             w \in 1..MaxWait, e \in 1..MaxTTL} :
     o.blockWaitingSeconds > o.expireSeconds}

\* every instance is built with the same option list, as lock1 and lock2 are
InitAbandon ==
  /\ Constructed({[i \in Inst |-> o] : o \in AbandonOptionLists})
  /\ RedNotBuilt

\* each goroutine of the test calls Lock once, and every command reaches the node
LockOnce(i) == Lock(i) /\ ret[i].op = "none" /\ nfaults' = nfaults
PollOnce(i) == blockingLock(i) /\ nfaults' = nfaults

\* nobody calls Unlock and no context is cancelled
NextAbandon ==
  \/ \E i \in Inst : LockOnce(i)
  \/ \E i \in Inst : PollOnce(i)
  \/ Tick

\* the clock runs and the poll ticker of a blockingLock in progress keeps firing
SpecAbandon ==
  /\ InitAbandon /\ [][NextAbandon]_vars
  /\ WF_vars(Tick) /\ \A i \in Inst : WF_vars(PollOnce(i))

(* ---------------- redlock.go: Lock and Unlock ---------------- *)
\* who wrote a record of a node: RedLock r, or another client of the node
OtherId == NRed + 1
\* the TTL of the records of the other client, in seconds
OtherTTL == 2

\* the number of member locks of RedLock r
NumLocks(r) == Len(redLock[r].locks)

\* a quorum of half of the members
QuorumHalf(n) == n \div 2

\* RedLock.Lock: len(r.locks)/2 + 1
Quorum(n) == n \div 2 + 1

\* RedLock.Lock: err == nil && cost <= r.singleNodesTimeout.
\* late: the Lock of the member took longer than the per-node timeout
counted(err, late) == err = NilErr /\ ~late

\* the deferred cancel() calls of RedLock.Lock: every per-node context is done
cancelAll(d) == [n \in Confs |-> cancel(d[n])]

\* NewRedLock is called for RedLock r with n node configurations and the options o
Construct(r) ==
  /\ redLock[r] = NotBuilt
  /\ \E n \in 0..MaxConfs, o \in RedLockOptionLists :
       /\ redLock' = [redLock EXCEPT ![r] = NewRedLock(LockKeyName, 1, 1, n, o)]
       /\ redRet' = [redRet EXCEPT ![r] =
                       [op |-> "NewRedLock", err |-> redLock'[r].err, n |-> n, opts |-> o]]
  /\ UNCHANGED <<nodes, redCall, redDog, redLease, ncalls, nfaults>>
  /\ UNCHANGED lockVars

\* RedLock.Lock is called
RedLockLock(r) ==
  /\ redLock[r].err = NilErr
  /\ redCall[r].pc = "idle"
  /\ ncalls < MaxCalls /\ ncalls' = ncalls + 1
  /\ redCall' = [redCall EXCEPT ![r] = [IdleRedCall EXCEPT !.pc = "locking", !.k = 1]]
  /\ redRet' = [redRet EXCEPT ![r] = [op |-> "Lock", err |-> Pending]]
  /\ UNCHANGED <<redLock, nodes, redDog, redLease, nfaults>>
  /\ UNCHANGED lockVars

\* RedLock.Lock after the Lock of member k returned: the next member, or the end
\* of the loop: the rollback when the quorum is missed, else the return of nil
afterMember(r, k, cnt, res, dogs) ==
  IF k < NumLocks(r)
  THEN /\ redCall' = [redCall EXCEPT ![r].pc = "locking", ![r].k = k + 1,
                                     ![r].successCnt = cnt, ![r].res = res]
       /\ redDog' = [redDog EXCEPT ![r] = dogs]
       /\ UNCHANGED redRet
  ELSE IF cnt < Quorum(NumLocks(r))
  THEN /\ redCall' = [redCall EXCEPT ![r].pc = "rollback", ![r].k = 1, ![r].err = NilErr,
                                     ![r].successCnt = cnt, ![r].res = res]
       /\ redDog' = [redDog EXCEPT ![r] = dogs]
       /\ UNCHANGED redRet
  ELSE /\ redCall' = [redCall EXCEPT ![r].pc = "idle", ![r].successCnt = cnt,
                                     ![r].res = res]
       /\ redRet' = [redRet EXCEPT ![r] = [op |-> "Lock", err |-> NilErr]]
       /\ redDog' = [redDog EXCEPT ![r] = cancelAll(dogs)]

\* the watchdog of member k starts (RedisLock.watchDog after the compare-and-swap):
\* its context is a child of the per-node context, done already when the per-node
\* timeout has passed
startMemberDog(r, k, late) ==
  [redDog[r] EXCEPT ![k] = IF late THEN "done" ELSE "live"]

\* one round of the loop of RedLock.Lock: lock.Lock(_ctx) of member k (not
\* blocking: one tryLock, then watchDog), then the count
RedLockLockMember(r) ==
  /\ redCall[r].pc = "locking"
  /\ \E fail \in Faults, late \in BOOLEAN :
       LET k == redCall[r].k
           m == redLock[r].locks[k]
           t == tryLock(m, nodes[k], r, fail)
           dogStarts == t.err = NilErr /\ m.opts.watchDogMode
           out == IF t.err # NilErr THEN "failed" ELSE IF late THEN "late" ELSE "ok"
       IN /\ Count(fail)
          /\ nodes' = [nodes EXCEPT ![k] = t.rec]
          /\ redLease' = [redLease EXCEPT ![r][k] =
                            IF t.err = NilErr THEN m.opts.expireSeconds ELSE 0]
          /\ IF dogStarts /\ m.runningDog = 1
             THEN \* the compare-and-swap loop spins while the earlier goroutine runs
                  /\ redCall' = [redCall EXCEPT ![r].pc = "spin"]
                  /\ UNCHANGED <<redLock, redRet, redDog>>
             ELSE /\ redLock' = IF dogStarts
                                THEN [redLock EXCEPT ![r].locks[k].runningDog = 1,
                                                     ![r].locks[k].stopDog = "set"]
                                ELSE redLock
                  /\ afterMember(r, k,
                       redCall[r].successCnt + (IF counted(t.err, late) THEN 1 ELSE 0),
                       [redCall[r].res EXCEPT ![k] = out],
                       IF dogStarts THEN startMemberDog(r, k, late) ELSE redDog[r])
  /\ UNCHANGED ncalls
  /\ UNCHANGED lockVars

\* the compare-and-swap loop of the watchDog of member k ends once the earlier
\* goroutine has reset runningDog; the Lock of the member then returns nil
RedLockWatchDog(r) ==
  /\ redCall[r].pc = "spin"
  /\ redLock[r].locks[redCall[r].k].runningDog = 0
  /\ \E late \in BOOLEAN :
       LET k == redCall[r].k
       IN /\ redLock' = [redLock EXCEPT ![r].locks[k].runningDog = 1,
                                        ![r].locks[k].stopDog = "set"]
          /\ afterMember(r, k,
               redCall[r].successCnt + (IF counted(NilErr, late) THEN 1 ELSE 0),
               [redCall[r].res EXCEPT ![k] = IF late THEN "late" ELSE "ok"],
               startMemberDog(r, k, late))
  /\ UNCHANGED <<nodes, redLease, ncalls, nfaults>>
  /\ UNCHANGED lockVars

\* RedLock.Unlock is called
RedLockUnlock(r) ==
  /\ redLock[r].err = NilErr
  /\ redCall[r].pc = "idle"
  /\ ncalls < MaxCalls /\ ncalls' = ncalls + 1
  /\ redCall' = [redCall EXCEPT ![r] = [IdleRedCall EXCEPT !.pc = "unlocking", !.k = 1]]
  /\ redRet' = [redRet EXCEPT ![r] = [op |-> "Unlock", err |-> Pending]]
  /\ UNCHANGED <<redLock, nodes, redDog, redLease, nfaults>>
  /\ UNCHANGED lockVars

\* one round of the loop of RedLock.Unlock, called by the caller or by RedLock.Lock
\* after a missed quorum: lock.Unlock(ctx) of member k.  The nil-func panic of the
\* member's deferred r.stopDog() ends the loop and the call; recovered: a frame of
\* the caller recovers it.  res[k]: history, what the Unlock of member k came to
RedLockUnlockMember(r) ==
  /\ redCall[r].pc \in {"rollback", "unlocking"}
  /\ \E fail \in Faults, recovered \in BOOLEAN :
       LET k == redCall[r].k
           m == redLock[r].locks[k]
           u == unlockBody(m, nodes[k], fail)
           out == stopDogOutcome(m, u.err)
           dogs == [redDog[r] EXCEPT ![k] = cancel(@)]
           err == IF out # NilErr THEN out ELSE redCall[r].err
           res == [redCall[r].res EXCEPT ![k] = IF out = NilErr THEN "ok" ELSE "failed"]
           rollback == redCall[r].pc = "rollback"
       IN /\ Count(fail)
          /\ nodes' = [nodes EXCEPT ![k] = u.rec]
          /\ redLease' = [redLease EXCEPT ![r][k] = 0]
          /\ IF out = NilFuncPanic
             THEN /\ redCall' = [redCall EXCEPT
                                   ![r].pc = IF recovered THEN "idle" ELSE "crashed"]
                  /\ redRet' = [redRet EXCEPT ![r].err = NilFuncPanic]
                  /\ redDog' = IF rollback
                               THEN [redDog EXCEPT ![r] = cancelAll(redDog[r])]
                               ELSE redDog
             ELSE IF k < NumLocks(r)
             THEN /\ redCall' = [redCall EXCEPT ![r].k = k + 1, ![r].err = err,
                                   ![r].res = IF rollback THEN @ ELSE res]
                  /\ redDog' = [redDog EXCEPT ![r] = dogs]
                  /\ UNCHANGED redRet
             ELSE /\ redCall' = [redCall EXCEPT ![r].pc = "idle", ![r].err = err,
                                   ![r].res = IF rollback THEN @ ELSE res]
                  /\ redRet' = [redRet EXCEPT
                                  ![r].err = IF rollback THEN QuorumErr ELSE err]
                  /\ redDog' = [redDog EXCEPT
                                  ![r] = IF rollback THEN cancelAll(dogs) ELSE dogs]
  /\ UNCHANGED <<redLock, ncalls>>
  /\ UNCHANGED lockVars

\* another client of node n acquires the key there
OtherSetNX(n) ==
  /\ \E r \in Reds : n <= NumLocks(r)
  /\ nodes[n] = NoRecord
  /\ ncalls < MaxCalls /\ ncalls' = ncalls + 1
  /\ nodes' = [nodes EXCEPT ![n] = SetNX(nodes[n], "other", OtherTTL, OtherId, FALSE).rec]
  /\ UNCHANGED <<redLock, redCall, redRet, redDog, redLease, nfaults>>
  /\ UNCHANGED lockVars

\* one second passes: TTLs run down and every per-node timeout has passed; a
\* watchdog goroutine whose context was done a second ago has met the tick of
\* its ticker by now (RedisLock.runWatchDog returns, the deferred function resets
\* runningDog).  The per-node timeouts are shorter than WatchDogWorkStepSeconds,
\* so no tick of a watchdog finds its context live
RedTick ==
  /\ nodes' = [n \in Confs |-> expire(nodes[n])]
  /\ redLease' = [r \in Reds |-> [n \in Confs |-> Max(redLease[r][n] - 1, 0)]]
  /\ redDog' = [r \in Reds |->
                  [n \in Confs |-> IF redDog[r][n] = "live" THEN "done" ELSE "none"]]
  /\ redLock' = [r \in Reds |->
                   IF redLock[r].err # NilErr THEN redLock[r]
                   ELSE [redLock[r] EXCEPT !.locks =
                           [k \in 1..NumLocks(r) |->
                              IF redDog[r][k] = "done"
                              THEN [@[k] EXCEPT !.runningDog = 0] ELSE @[k]]]]
  /\ UNCHANGED <<redCall, redRet, ncalls, nfaults>>
  /\ UNCHANGED lockVars

NextRed ==
  \/ \E r \in Reds : RedLockLock(r)
  \/ \E r \in Reds : RedLockLockMember(r)
  \/ \E r \in Reds : RedLockWatchDog(r)
  \/ \E r \in Reds : RedLockUnlock(r)
  \/ \E r \in Reds : RedLockUnlockMember(r)
  \/ \E n \in Confs : OtherSetNX(n)
  \/ RedTick

\* no RedisLock of the single-node model is used
NoOptions == [isBlock |-> FALSE, blockWaitingSeconds |-> 0, expireSeconds |-> 0]
Unused ==
  /\ Constructed([Inst -> {NoOptions}])
  /\ \A i \in Inst : locks[i].token = GetProcessAndGoroutineIDStr(1, 1)

\* the RedLock of a caller: no options (members in watchdog mode), or
\* WithRedLockExpireDuration(2 * time.Second), over MaxConfs nodes
RedLockScenarios ==
  {[singleNodesTimeout |-> 0, expireDuration |-> e] : e \in {0, 2000}}

\* the RedLocks built, RedLock r by goroutine gid[r], all with one option list
\* from O; the RedLocks outside the domain of gid are not built
Built(gid, O) ==
  /\ \E o \in O :
       redLock = [r \in Reds |->
                   IF r \in DOMAIN gid
                   THEN NewRedLock(LockKeyName, 1, gid[r], MaxConfs, o) ELSE NotBuilt]
  /\ nodes = [n \in Confs |-> NoRecord]
  /\ redCall = [r \in Reds |-> IdleRedCall]
  /\ redRet = [r \in Reds |-> NoCall]
  /\ redDog = [r \in Reds |-> [n \in Confs |-> "none"]]
  /\ redLease = [r \in Reds |-> [n \in Confs |-> 0]]

\* one RedLock, and other clients of its nodes
InitRed == Unused /\ Built([r \in {1} |-> 1], RedLockScenarios)

SpecRed == InitRed /\ [][NextRed]_vars

\* WithRedLockExpireDuration(2 * time.Second): members with an explicit TTL
PairScenarios == {[singleNodesTimeout |-> 0, expireDuration |-> 2000]}

\* the RedLocks over the same nodes and the same key, built by one goroutine or
\* each by a goroutine of its own; the nodes have no other client
InitPair ==
  /\ Unused
  /\ \E gid \in [Reds -> Reds] :
       /\ \A r \in Reds : gid[r] \in Gids(r)
       /\ Built(gid, PairScenarios)

\* members with an explicit TTL start no watchdog, so no Lock of a member meets
\* the compare-and-swap loop
NextPair ==
  \/ \E r \in Reds : RedLockLock(r)
  \/ \E r \in Reds : RedLockLockMember(r)
  \/ \E r \in Reds : RedLockUnlock(r)
  \/ \E r \in Reds : RedLockUnlockMember(r)
  \/ RedTick

SpecPair == InitPair /\ [][NextPair]_vars

\* NewRedLock alone, over all its inputs: the caller builds its first RedLock
InitNew == Unused /\ RedNotBuilt
NextNew == Construct(1)
SpecNew == InitNew /\ [][NextNew]_vars

(* ---------------- NewRedisLock over all option lists ---------------- *)
\* the options as any combination of WithBlock, WithBlockWaitingSeconds and
\* WithExpireSeconds leaves them (0 = option not given)
AllOptionLists ==
  {[isBlock |-> b, blockWaitingSeconds |-> w, expireSeconds |-> e] :
     b \in BOOLEAN, w \in {0 - 1, 0, 1, 2, 7}, e \in {0 - 1, 0, 1, 3, 12}}

\* instance 1 is built with any option list, the other instances with none
InitOptions ==
  /\ Constructed({o \in [Inst -> AllOptionLists] : \A i \in Inst \ {1} : o[i] = NoOptions})
  /\ RedNotBuilt

\* each instance calls Lock once
NextOptions == \E i \in Inst : LockOnce(i)
SpecOptions == InitOptions /\ [][NextOptions]_vars

TypeOK ==
  /\ \A i \in Inst : lease[i] \in 0..DefaultLockExpireSeconds
  /\ \A i \in Inst : call[i].pc \in {"idle", "polling", "spin", "crashed"}

(* ---------------- properties ---------------- *)
\* the record of instance i's key is the one a Lock of instance i wrote
Owns(i) == Rec(i) # NoRecord /\ Rec(i).by = i
WatchDogMode(i) == locks[i].opts.watchDogMode
SameKey(i, j) == locks[i].key = locks[j].key

\* C1: at most one instance at a time holds the key (its latest Lock returned
\* success, it has not called Unlock since, and its lease has not run out)
C1_MutualExclusion ==
  \A i, j \in Inst : SameKey(i, j) /\ Holds(i) /\ Holds(j) => i = j

\* C2: two distinct instances that contend for the same key have different tokens
C2_TokenUniqueness ==
  \A i, j \in Inst : i # j /\ SameKey(i, j) => locks[i].token # locks[j].token

\* C3: an Unlock or a renewal by an instance that did not write the current record
\* leaves the record as it is (value and TTL)
C3_ForeignRecordUntouched ==
  [][\A i \in Inst :
       (Unlock(i) \/ runWatchDog(i)) /\ Rec(i) # NoRecord /\ ~Owns(i)
         => store' = store]_vars

\* C4: Unlock by an instance that holds an unexpired lock returns success and
\* removes the record, with and without an explicit TTL, and a non-blocking Lock
\* by another instance on the released key then succeeds on its single attempt
C4_ReleaseRoundTrip ==
  [][/\ \A i \in Inst :
          Unlock(i) /\ Holds(i) /\ nfaults' = nfaults
            => ret'[i].err = NilErr /\ Rec(i)' = NoRecord
     /\ \A j \in Inst :
          Lock(j) /\ ~locks[j].opts.isBlock /\ Rec(j) = NoRecord /\ nfaults' = nfaults
            => ret'[j].err \in {NilErr, Pending} /\ Owns(j)' /\ call'[j].attempts = 1]_vars

\* C5: Unlock by an instance that does not own the key returns the
\* ownership-violation error and does not change the store, in every lock mode
C5_UnlockWithoutOwnership ==
  [][\A i \in Inst :
       Unlock(i) /\ ~Owns(i) /\ nfaults' = nfaults
         => ret'[i].err = UnlockOwnershipErr /\ store' = store]_vars

\* C6: while an instance in watchdog mode has a successful Lock and has not called
\* Unlock (and every command reaches the store), no Lock of another instance on
\* the key succeeds
C6_WatchDogKeepsLease ==
  [][\A i, j \in Inst :
       /\ i # j /\ SameKey(i, j)
       /\ WatchDogMode(i) /\ Held(i) /\ Held(i)'
       /\ nfaults' = 0
       => ~(~Held(j) /\ Held(j)')]_vars

\* C7: the renewal task of an instance is stopped by nothing but the Unlock of
\* that instance: while the instance has a successful Lock and has not called
\* Unlock, the context of its task is not done
C7_DogStoppedOnlyByUnlock ==
  \A i \in Inst : WatchDogMode(i) /\ Held(i) => dog[i].ctx = "live"

\* the record of instance i's key was written by another instance
HeldByOther(i) == Rec(i) # NoRecord /\ Rec(i).by # i
LockErr(i, e) == ret[i] = [op |-> "Lock", err |-> e]

\* C8: a non-blocking Lock on a key that another instance holds, the store
\* answering, makes one acquire attempt and returns at once an error that wraps
\* ErrLockAcquiredByOthers (IsRetryableErr is true); it does not poll and leaves
\* the record as it is
C8_NonBlockingFailsFast ==
  [][\A i \in Inst :
       Lock(i) /\ ~locks[i].opts.isBlock /\ HeldByOther(i) /\ nfaults' = nfaults
         => /\ call'[i].pc = "idle"
            /\ LockErr(i, ContentionErr)'
            /\ IsRetryableErr(ret'[i].err)
            /\ call'[i].attempts = 1
            /\ store' = store]_vars

\* C8 witness: a non-blocking instance whose Lock returned the contention error
\* after one attempt while another instance's record is in the store
C8_Witness ==
  \E i \in Inst :
    /\ ~locks[i].opts.isBlock /\ LockErr(i, ContentionErr)
    /\ call[i].attempts = 1 /\ HeldByOther(i)

C18_CancelReturnsCtxErr ==
  [][\A i \in Inst :
       blockingLock(i) /\ call[i].ctx = "done"
         => /\ LockErr(i, CtxErr)' /\ ~IsRetryableErr(ret'[i].err)
            /\ call'[i].attempts = call[i].attempts
            /\ store' = store /\ ~Held(i)']_vars

\* C18 amended: the tick of a blocking Lock that finds the context done makes no
\* acquire attempt, acquires nothing and ends the call; it returns the
\* cancellation error (wrapping ctx.Err(), not retryable) when the wait budget
\* has not elapsed, and the cancellation error or the wait-timeout error when
\* the wait budget has elapsed too
C18_CancelEndsPolling ==
  [][\A i \in Inst :
       blockingLock(i) /\ call[i].ctx = "done"
         => /\ call'[i].pc = "idle"
            /\ call'[i].attempts = call[i].attempts
            /\ store' = store /\ ~Held(i)' /\ nfaults' = nfaults
            /\ IF call[i].waitLeft > 0
               THEN LockErr(i, CtxErr)' /\ ~IsRetryableErr(ret'[i].err)
                    /\ ret'[i].err.wraps = "ctx.Err"
               ELSE LockErr(i, CtxErr)' \/ LockErr(i, WaitTimeoutErr)']_vars

\* C18 witness: a blocking Lock returned the cancellation error after polling,
\* and the instance holds nothing
C18_Witness ==
  \E i \in Inst :
    /\ locks[i].opts.isBlock /\ LockErr(i, CtxErr)
    /\ call[i].attempts >= 1 /\ ~Owns(i) /\ lease[i] = 0

\* C19: an attempt whose command fails at the connection or at the node ends
\* the call: Lock returns that error as it is, after the first attempt in both
\* modes and after a polled attempt in blocking mode, and the store is not
\* changed; the contention error is returned only for a record that is present
C19_StoreErrorNotRetried ==
  [][\A i \in Inst :
       /\ Lock(i) /\ nfaults' > nfaults
            => /\ call'[i].pc = "idle" /\ call'[i].attempts = 1
               /\ LockErr(i, StoreErr)' /\ ~IsRetryableErr(ret'[i].err)
               /\ store' = store
       /\ blockingLock(i) /\ nfaults' > nfaults
            => /\ call'[i].pc = "idle"
               /\ LockErr(i, StoreErr)' /\ ~IsRetryableErr(ret'[i].err)
               /\ store' = store
       /\ (Lock(i) \/ blockingLock(i)) /\ LockErr(i, ContentionErr)'
            => nfaults' = nfaults /\ Rec(i) # NoRecord]_vars

\* C19 witness: a blocking Lock returned the store's error from a polled attempt
C19_Witness ==
  \E i \in Inst :
    /\ locks[i].opts.isBlock /\ LockErr(i, StoreErr)
    /\ call[i].attempts > 1 /\ nfaults > 0

\* the instances that have called Lock
Callers == {i \in Inst : ret[i].op = "Lock"}
\* every wait budget is longer than every explicit TTL
WaitOutlastsLease ==
  \A i, j \in Inst : locks[i].opts.blockWaitingSeconds > locks[j].opts.expireSeconds

\* C11: blocking instances with explicit TTLs and longer wait budgets, nobody
\* calling Unlock: as long as at most two of them have called Lock, no Lock
\* returns an error, every Lock in progress eventually returns nil, and a Lock
\* that acquires by polling does so after the lease of every earlier holder has
\* run out
C11_AbandonedLockFreed ==
  /\ [](WaitOutlastsLease /\ Cardinality(Callers) <= 2
          => \A i \in Callers : ret[i].err \in {NilErr, Pending})
  /\ \A i \in Inst :
       (WaitOutlastsLease /\ LockErr(i, Pending))
         ~> (Held(i) \/ Cardinality(Callers) > 2)
  /\ [][\A i \in Inst :
          PollOnce(i) /\ Held(i)'
            => Rec(i) = NoRecord /\ \A j \in Inst \ {i} : Held(j) => lease[j] = 0]_vars

\* C11 witness: both Lock calls returned nil, the second after polling, and
\* nobody called Unlock
C11_Witness ==
  /\ WaitOutlastsLease
  /\ \E i, j \in Inst :
       /\ i # j /\ Held(i) /\ Held(j)
       /\ call[i].attempts = 1 /\ call[j].attempts > 1

\* the members of RedLock r whose Lock returned nil within the per-node timeout
\* in the latest RedLock.Lock
InTime(r) == {n \in 1..NumLocks(r) : redCall[r].res[n] = "ok"}
LockEnded(r) == redRet[r].op = "Lock" /\ redRet[r].err # Pending
UnlockEnded(r) == redRet[r].op = "Unlock" /\ redRet[r].err # Pending

\* C12: a RedLock.Lock that has ended returned nil if and only if at least
\* floor(N/2)+1 of the N members returned nil within the per-node timeout;
\* members that failed or returned nil too late do not count
C12_QuorumDecides ==
  \A r \in Reds :
    LockEnded(r)
      => (redRet[r].err = NilErr <=> Cardinality(InTime(r)) >= NumLocks(r) \div 2 + 1)

\* C12 witness: RedLock.Lock returned nil although a member failed or was late
C12_Witness ==
  \E r \in Reds :
    /\ redRet[r] = [op |-> "Lock", err |-> NilErr]
    /\ \E n \in 1..NumLocks(r) : redCall[r].res[n] \in {"failed", "late"}
    /\ Cardinality(InTime(r)) = NumLocks(r) \div 2 + 1

\* C13: whenever RedLock.Lock misses the quorum it returns the quorum-failure
\* error, and afterwards no member node stores a record written by this RedLock
C13_QuorumRollback ==
  \A r \in Reds :
    LockEnded(r) /\ redRet[r].err # NilErr
      => /\ redRet[r].err = QuorumErr
         /\ \A n \in 1..NumLocks(r) : nodes[n].by # r

\* C14: a RedLock.Unlock that has ended has called Unlock on every member, and
\* it returned nil exactly when no member failed, else the error of the last
\* member that failed
C14_UnlockBroadcast ==
  \A r \in Reds :
    UnlockEnded(r)
      => /\ \A n \in 1..NumLocks(r) : redCall[r].res[n] # "none"
         /\ redRet[r].err = redCall[r].err
         /\ redRet[r].err = NilErr <=> \A n \in 1..NumLocks(r) : redCall[r].res[n] = "ok"

\* C15: NewRedLock with fewer than 3 node configurations returns the
\* configuration error and no RedLock: no member lock, no record on any node,
\* no command issued
C15_TooFewNodes ==
  \A r \in Reds :
    redRet[r].op = "NewRedLock" /\ redRet[r].n < 3
      => /\ redLock[r] = NoRedLock(TooFewNodesErr)
         /\ redRet[r].err = TooFewNodesErr
         /\ \A n \in Confs : nodes[n] = NoRecord
         /\ nfaults = 0 /\ ncalls = 0

\* C15 witness: NewRedLock was called with 2 configurations and returned the error
C15_Witness ==
  \E r \in Reds :
    /\ redRet[r].op = "NewRedLock" /\ redRet[r].n = 2
    /\ redLock[r].err = TooFewNodesErr /\ redLock[r].locks = <<>>

\* the per-node timeout NewRedLock works with for the option t
PerNodeTimeout(t) == IF t <= 0 THEN 50 ELSE t

\* C16 as stated: every RedLock that NewRedLock returns satisfies
\* N x per-node timeout x 10 <= overall lease duration
C16_ThresholdEnforced ==
  \A r \in Reds :
    redRet[r].op = "NewRedLock" /\ redLock[r].err = NilErr
      => redRet[r].n * PerNodeTimeout(redRet[r].opts.singleNodesTimeout) * 10
           <= redRet[r].opts.expireDuration

\* C16 amended: when a positive overall lease duration is given, NewRedLock with
\* at least 3 nodes returns the configuration error exactly when
\* N x per-node timeout x 10 exceeds it (50 ms when no positive per-node timeout
\* is given); when no positive lease duration is given nothing is checked and
\* the RedLock is returned
C16_ThresholdEnforcedWhenGiven ==
  \A r \in Reds :
    redRet[r].op = "NewRedLock" /\ redRet[r].n >= 3
      => LET product == redRet[r].n * PerNodeTimeout(redRet[r].opts.singleNodesTimeout) * 10
             e == redRet[r].opts.expireDuration
         IN /\ e > 0 /\ product > e => redLock[r] = NoRedLock(ThresholdErr)
            /\ e > 0 /\ product <= e
                 => redLock[r].err = NilErr /\ NumLocks(r) = redRet[r].n
                    /\ redLock[r].expireDuration = e
                    /\ redLock[r].singleNodesTimeout
                         = PerNodeTimeout(redRet[r].opts.singleNodesTimeout)
            /\ e <= 0 => redLock[r].err = NilErr /\ NumLocks(r) = redRet[r].n

\* C16 witness: a positive lease duration shorter than 10 x N x the default
\* per-node timeout was refused
C16_Witness ==
  \E r \in Reds :
    /\ redRet[r].op = "NewRedLock" /\ redRet[r].n >= 3
    /\ redRet[r].opts.singleNodesTimeout <= 0 /\ redRet[r].opts.expireDuration > 0
    /\ redLock[r] = NoRedLock(ThresholdErr)

\* C27: every member lock of a RedLock that NewRedLock returned has a lease TTL
\* that does not exceed the overall lease duration of the RedLock (the TTL in
\* seconds, the duration in milliseconds)
C27_MemberTTLWithinLease ==
  \A r \in Reds :
    redRet[r].op = "NewRedLock" /\ redLock[r].err = NilErr
      => \A k \in 1..NumLocks(r) :
           redLock[r].locks[k].opts.expireSeconds * 1000 <= redLock[r].expireDuration

\* C20: for every option list o that NewRedisLock turns into the options of an
\* instance: the TTL is positive; watchdog mode is on exactly when o has no
\* positive TTL, and the TTL is then 10 s; a positive TTL is kept; blocking with
\* no positive wait budget gets 5 s; a positive wait budget is kept
C20_OptionsRepaired ==
  \A i \in Inst : \A o \in AllOptionLists :
    LET r == locks[i].opts
    IN r = NewRedisLock(LockKeyName, 1, 1, o).opts
         => /\ r.expireSeconds > 0
            /\ r.watchDogMode <=> o.expireSeconds <= 0
            /\ r.watchDogMode => r.expireSeconds = 10
            /\ o.expireSeconds > 0 => r.expireSeconds = o.expireSeconds
            /\ r.isBlock = o.isBlock
            /\ o.isBlock /\ o.blockWaitingSeconds <= 0 => r.blockWaitingSeconds = 5
            /\ o.blockWaitingSeconds > 0 => r.blockWaitingSeconds = o.blockWaitingSeconds

\* C20 witness: an instance built blocking with neither a TTL nor a wait budget
\* has both defaults and has taken its first Lock into watchdog mode
C20_Witness ==
  \E i \in Inst :
    /\ locks[i].opts.isBlock /\ locks[i].opts.blockWaitingSeconds = 5
    /\ locks[i].opts.watchDogMode /\ locks[i].opts.expireSeconds = 10
    /\ Held(i) /\ dog[i].ctx = "live"

\* the members of RedLock r that acquired in its latest RedLock.Lock
Acquired(r) == {n \in 1..NumLocks(r) : redCall[r].res[n] \in {"ok", "late"}}
\* the latest call on RedLock r is a Lock that returned nil, and the lease of
\* every member that acquired has not run out
RedHolds(r) ==
  /\ redRet[r] = [op |-> "Lock", err |-> NilErr]
  /\ \A n \in Acquired(r) : redLease[r][n] > 0

\* C26: of the RedLocks built over the same nodes and the same key, at most one
\* at a time has a successful Lock that it has not released while its member
\* leases are unexpired
C26_QuorumMutualExclusion ==
  \A r, q \in Reds : RedHolds(r) /\ RedHolds(q) => r = q

\* a step of a Lock call of instance i that neither acquires nor returns nil
NoAcquire(i) == ~LockErr(i, NilErr)' /\ call'[i].pc # "spin"
\* the step in which a Lock call of instance i returns nil
LockReturnsNil(i) ==
  /\ Lock(i) \/ blockingLock(i) \/ watchDog(i)
  /\ call'[i].pc = "idle" /\ LockErr(i, NilErr)'

C21_OneLiveDogAfterLock ==
  /\ [](\A i \in Inst : locks[i].runningDog = 1 <=> dog[i] # NoDog)
  /\ [][\A i \in Inst :
          WatchDogMode(i) /\ LockReturnsNil(i)
            => /\ locks[i].runningDog = 0 /\ locks'[i].runningDog = 1
               /\ dog'[i] = [ctx |-> "live", timer |-> 0]]_vars

Running(i) == locks[i].runningDog = 1
UnlockFailed(i) == ret[i].op = "Unlock" /\ ret[i].err \in {UnlockOwnershipErr, StoreErr}

\* C22: every Unlock leaves the context of the instance's renewal task done,
\* whatever the release came to; a task whose context is done renews nothing,
\* stays cancelled, and the tick of its ticker ends it; after an Unlock the task
\* that was running eventually terminates
C22_UnlockStopsDog ==
  /\ [][\A i \in Inst :
          /\ Unlock(i) => dog'[i].ctx # "live" /\ (Running(i) => dog'[i].ctx = "done")
          /\ dog[i].ctx = "done" /\ Running(i)' => dog'[i].ctx = "done"
          /\ runWatchDog(i) /\ dog[i].ctx = "done"
               => store' = store /\ ~Running(i)' /\ dog'[i] = NoDog]_vars
  /\ \A i \in Inst : (ret[i].op = "Unlock" /\ Running(i)) ~> ~Running(i)

\* C22 witness: an Unlock failed (not the owner, or the store's error) and the
\* task of the instance is cancelled and has not yet met its tick
C22_Witness ==
  \E i \in Inst : UnlockFailed(i) /\ Running(i) /\ dog[i].ctx = "done"

\* the renewal that a tick of the watchdog of instance i makes
Renewal(i) ==
  LuaCheckAndExpireDistributionLock(Rec(i), locks[i].token,
                                    WatchDogWorkStepSeconds + WatchDogExpireMargin)

\* C23: a tick of a renewal task whose context is not done attempts a renewal
\* and, whatever the renewal comes to (renewed, not the owner, the store's
\* error), leaves the task running for its next tick and returns nothing to the
\* caller of Lock; a task that is not cancelled keeps meeting its ticks
C23_FailedRenewalKeepsDog ==
  /\ [][\A i \in Inst :
          runWatchDog(i) /\ dog[i].ctx = "live"
            => /\ Running(i)' /\ dog'[i] = [ctx |-> "live", timer |-> 0]
               /\ ret' = ret /\ call' = call
               /\ \/ nfaults' = nfaults /\ Rec(i)' = Renewal(i).rec
                  \/ nfaults' > nfaults /\ store' = store]_vars
  /\ \A i \in Inst :
       (Running(i) /\ dog[i].ctx = "live" /\ dog[i].timer > 0)
         ~> (dog[i].timer = 0 \/ dog[i].ctx # "live")

\* C23 witness: the first tick of the task of a holder did not renew (the lease
\* granted by Lock has run for WatchDogWorkStepSeconds) and the task runs on
C23_Witness ==
  \E i \in Inst :
    /\ Held(i) /\ Running(i) /\ dog[i] = [ctx |-> "live", timer |-> 0]
    /\ lease[i] = DefaultLockExpireSeconds - WatchDogWorkStepSeconds

\* C24: every Lock call eventually returns: a call in progress (polling in
\* blockingLock, or in the compare-and-swap loop of watchDog) does not stay in
\* progress for ever, the clock and the goroutines running
C24_LockReturns ==
  \A i \in Inst : LockErr(i, Pending) ~> ~LockErr(i, Pending)

====
